---- MODULE Spec2Model ----
(***************************************************************************)
(* Model of the evaluation context (src/evaluation/context.rs) and of the  *)
(* resolution details envelope (src/provider/details.rs).                  *)
(*                                                                         *)
(* Option<T> is modelled as a sequence of length at most one: <<>> is None *)
(* and <<x>> is Some(x).  A HashMap is modelled as a function whose domain *)
(* is the set of keys present.                                             *)
(***************************************************************************)
EXTENDS Integers, Sequences, FiniteSets, TLC

\* ---------------------------------------------------------------- bounds
NumKeys == 2
NumFlagValues == 2

\* custom-field keys: NumKeys distinct strings, named by their index
Keys == 1..NumKeys

\* field values and targeting keys are opaque to the context, which only
\* clones and compares them: the literals of the unit tests stand for them
Values == {"Value", "Another Value"}
TargetingKeys == {"Targeting Key", "Another Key"}

\* i64 flag values
FlagValues == 0..NumFlagValues

Variants == {"on", "off"}
Reasons == {"STATIC", "ERROR"}
Metadatas == {"meta"}

None == <<>>
Some(x) == <<x>>
OptionOf(S) == {None} \cup {Some(x) : x \in S}

\* ------------------------------------------------------ EvaluationContext
FieldMaps == UNION {[S -> Values] : S \in SUBSET Keys}

EvaluationContext == [targeting_key : OptionOf(TargetingKeys), custom_fields : FieldMaps]

EmptyMap == [k \in {} |-> ""]

DefaultContext == [targeting_key |-> None, custom_fields |-> EmptyMap]

\* HashMap::contains_key
ContainsKey(map, key) == key \in DOMAIN map

\* mutant: insert keeps the value already stored (entry().or_insert)
InsertIfAbsent(map, key, value) == [k \in (DOMAIN map) \cup {key} |-> IF k \in DOMAIN map THEN map[k] ELSE value]

\* HashMap::insert: insert-or-replace
Insert(map, key, value) == [k \in (DOMAIN map) \cup {key} |-> IF k = key THEN value ELSE map[k]]

\* all iteration orders a HashMap with key set S may produce
Orders(S) == {o \in [1..Cardinality(S) -> S] : \A k \in S : \E i \in DOMAIN o : o[i] = k}

\* one of the iteration orders
SomeOrder(S) == CHOOSE o \in Orders(S) : TRUE

add_custom_field(ctx, key, value) == [ctx EXCEPT !.custom_fields = Insert(ctx.custom_fields, key, value)]

with_custom_field(ctx, key, value) == add_custom_field(ctx, key, value)

\* mutant: the contains_key test is dropped, other's value overwrites
RECURSIVE MergeFieldsOverwrite(_, _, _)
MergeFieldsOverwrite(fields, other, order) ==
  IF order = <<>> THEN fields
  ELSE MergeFieldsOverwrite(Insert(fields, Head(order), other[Head(order)]), other, Tail(order))

\* mutant: the iteration ends after the first key it copies
RECURSIVE MergeFieldsStopAfterFirst(_, _, _)
MergeFieldsStopAfterFirst(fields, other, order) ==
  IF order = <<>> THEN fields
  ELSE IF ~ContainsKey(fields, Head(order)) THEN Insert(fields, Head(order), other[Head(order)])
  ELSE MergeFieldsStopAfterFirst(fields, other, Tail(order))

\* mutant: the contains_key test is inverted, only present keys are written
RECURSIVE MergeFieldsInverted(_, _, _)
MergeFieldsInverted(fields, other, order) ==
  IF order = <<>> THEN fields
  ELSE LET key == Head(order)
           next == IF ContainsKey(fields, key) THEN Insert(fields, key, other[key]) ELSE fields
       IN MergeFieldsInverted(next, other, Tail(order))

\* the for_each closure of merge_missing, applied along one iteration order
RECURSIVE MergeFields(_, _, _)
MergeFields(fields, other, order) ==
  IF order = <<>> THEN fields
  ELSE LET key == Head(order)
           next == IF ~ContainsKey(fields, key) THEN Insert(fields, key, other[key]) ELSE fields
       IN MergeFields(next, other, Tail(order))

\* mutant: other's targeting key is never adopted
MergeTargetingKeyNeverAdopt(mine, theirs) == mine

\* mutant: other's targeting key is assigned unconditionally
MergeTargetingKeyAlwaysAssign(mine, theirs) == theirs

MergeTargetingKey(mine, theirs) == IF mine = None /\ theirs # None THEN theirs ELSE mine

\* mutant: a key present on both sides is treated as a conflict and removed
merge_missing_drop_conflicts(ctx, other, order) ==
  [targeting_key |-> MergeTargetingKey(ctx.targeting_key, other.targeting_key),
   custom_fields |-> [k \in ((DOMAIN ctx.custom_fields) \cup (DOMAIN other.custom_fields)) \ ((DOMAIN ctx.custom_fields) \cap (DOMAIN other.custom_fields)) |->
                        IF k \in DOMAIN ctx.custom_fields THEN ctx.custom_fields[k] ELSE other.custom_fields[k]]]

\* mutant: only the targeting key is merged, no field is copied
merge_missing_key_only(ctx, other, order) ==
  [targeting_key |-> MergeTargetingKey(ctx.targeting_key, other.targeting_key),
   custom_fields |-> ctx.custom_fields]

merge_missing(ctx, other, order) ==
  [targeting_key |-> MergeTargetingKey(ctx.targeting_key, other.targeting_key),
   custom_fields |-> MergeFields(ctx.custom_fields, other.custom_fields, order)]

\* ------------------------------------------------------ ResolutionDetails
ResolutionDetails == [value : FlagValues, variant : OptionOf(Variants), reason : OptionOf(Reasons), flag_metadata : OptionOf(Metadatas)]

\* arguments accepted by ResolutionDetails::<i64>::new: an i64 (reflexive
\* From) or a bool (From<bool> for i64)
NewArgs == [kind : {"i64"}, val : FlagValues] \cup [kind : {"bool"}, val : BOOLEAN]

Into(arg) == IF arg.kind = "bool" THEN (IF arg.val THEN 1 ELSE 0) ELSE arg.val

ResolutionDetailsDefault == [value |-> 0, variant |-> None, reason |-> None, flag_metadata |-> None]

\* mutant: new ignores its argument and stores the default value
ResolutionDetailsNewDefaultValue(arg) == [value |-> 0, variant |-> None, reason |-> None, flag_metadata |-> None]

ResolutionDetailsNew(arg) == [value |-> Into(arg), variant |-> None, reason |-> None, flag_metadata |-> None]

ResolutionDetailsBuild(value, variant, reason, metadata) == [value |-> value, variant |-> variant, reason |-> reason, flag_metadata |-> metadata]

\* ------------------------------------------------------------------ state
VARIABLES self, pre, last, pre2, last2, details, dlast

vars == <<self, pre, last, pre2, last2, details, dlast>>

ctxVars == <<self, pre, last, pre2, last2>>

detailsVars == <<details, dlast>>

NoOp == [op |-> "init", key |-> 0, value |-> "", other |-> DefaultContext]

NoArg == [kind |-> "i64", val |-> 0]

Init ==
  /\ self \in EvaluationContext
  /\ pre = self
  /\ pre2 = DefaultContext
  /\ last = NoOp
  /\ last2 = NoOp
  /\ details = ResolutionDetailsDefault
  /\ dlast = [op |-> "default", arg |-> NoArg]

\* with twoCalls, a call is taken only while the history has room for it
HasRoom(twoCalls) == twoCalls => last2.op = "init"

\* the history of calls on self: the last call and the context before it;
\* with twoCalls, also the call before that one, for the first two calls
Record(call, twoCalls) ==
  /\ pre' = self
  /\ last' = call
  /\ IF twoCalls
       THEN pre2' = pre /\ last2' = last
       ELSE UNCHANGED <<pre2, last2>>

AddCustomFieldCall(twoCalls) ==
  /\ HasRoom(twoCalls)
  /\ \E key \in Keys, value \in Values :
    /\ self' = add_custom_field(self, key, value)
    /\ Record([op |-> "add", key |-> key, value |-> value, other |-> DefaultContext], twoCalls)
    /\ UNCHANGED detailsVars

WithCustomFieldCall(twoCalls) ==
  /\ HasRoom(twoCalls)
  /\ \E key \in Keys, value \in Values :
    /\ self' = with_custom_field(self, key, value)
    /\ Record([op |-> "with", key |-> key, value |-> value, other |-> DefaultContext], twoCalls)
    /\ UNCHANGED detailsVars

MergeMissingCall(twoCalls) ==
  /\ HasRoom(twoCalls)
  /\ \E other \in EvaluationContext :
    \E order \in Orders(DOMAIN other.custom_fields) :
      /\ self' = merge_missing(self, other, order)
      /\ Record([op |-> "merge", key |-> 0, value |-> "", other |-> other], twoCalls)
      /\ UNCHANGED detailsVars

\* any sequence of calls on one context
AddCustomField == AddCustomFieldCall(FALSE)

WithCustomField == WithCustomFieldCall(FALSE)

MergeMissing == MergeMissingCall(FALSE)

Next == AddCustomField \/ WithCustomField \/ MergeMissing

Spec == Init /\ [][Next]_vars

\* two consecutive calls on one context, both kept in the history
TwoCallsAddCustomField == AddCustomFieldCall(TRUE)

TwoCallsWithCustomField == WithCustomFieldCall(TRUE)

TwoCallsMergeMissing == MergeMissingCall(TRUE)

TwoCallsNext == TwoCallsAddCustomField \/ TwoCallsWithCustomField \/ TwoCallsMergeMissing

TwoCallsSpec == Init /\ [][TwoCallsNext]_vars

DetailsNew ==
  \E arg \in NewArgs :
    /\ details' = ResolutionDetailsNew(arg)
    /\ dlast' = [op |-> "new", arg |-> arg]
    /\ UNCHANGED ctxVars

DetailsDefault ==
  /\ details' = ResolutionDetailsDefault
  /\ dlast' = [op |-> "default", arg |-> NoArg]
  /\ UNCHANGED ctxVars

DetailsBuild ==
  \E value \in FlagValues, variant \in OptionOf(Variants), reason \in OptionOf(Reasons), metadata \in OptionOf(Metadatas) :
    /\ details' = ResolutionDetailsBuild(value, variant, reason, metadata)
    /\ dlast' = [op |-> "build", arg |-> NoArg]
    /\ UNCHANGED ctxVars

DetailsNext == DetailsNew \/ DetailsDefault \/ DetailsBuild

DetailsSpec == Init /\ [][DetailsNext]_vars

TypeOK ==
  /\ self \in EvaluationContext
  /\ pre \in EvaluationContext
  /\ pre2 \in EvaluationContext
  /\ details \in ResolutionDetails
\* ----------------------------------------------------------------- claims
KeysOf(ctx) == DOMAIN ctx.custom_fields

LastIsMerge == last.op = "merge"

LastIsInsert == last.op \in {"add", "with"}

\* C1: existing wins: after self.merge_missing(other) every key self had
\* before still maps to its old value, and a targeting key that was set
\* before the call is unchanged.
C1_ExistingWins ==
  LastIsMerge =>
    /\ \A k \in KeysOf(pre) : k \in KeysOf(self) /\ self.custom_fields[k] = pre.custom_fields[k]
    /\ pre.targeting_key # None => self.targeting_key = pre.targeting_key

C1_Witness ==
  /\ LastIsMerge
  /\ \E k \in KeysOf(pre) \cap KeysOf(last.other) : pre.custom_fields[k] # last.other.custom_fields[k]
  /\ pre.targeting_key # None
  /\ last.other.targeting_key # None
  /\ pre.targeting_key # last.other.targeting_key

\* C2: gaps are filled: after self.merge_missing(other) the key set is the
\* union of both key sets, a key only other had maps to other's value, and a
\* targeting key absent before the call equals other's afterwards.
C2_GapsFilled ==
  LastIsMerge =>
    /\ KeysOf(self) = KeysOf(pre) \cup KeysOf(last.other)
    /\ \A k \in KeysOf(last.other) \ KeysOf(pre) : self.custom_fields[k] = last.other.custom_fields[k]
    /\ pre.targeting_key = None => self.targeting_key = last.other.targeting_key

C2_Witness ==
  /\ LastIsMerge
  /\ KeysOf(last.other) \ KeysOf(pre) # {}
  /\ KeysOf(pre) \ KeysOf(last.other) # {}
  /\ pre.targeting_key = None
  /\ last.other.targeting_key # None

\* C3: merging the default (empty) context into any context leaves the
\* context equal to its value before the call.
C3_MergeEmptyNoOp ==
  (LastIsMerge /\ last.other = DefaultContext) => self = pre

C3_Witness ==
  /\ LastIsMerge
  /\ last.other = DefaultContext
  /\ pre.targeting_key # None
  /\ KeysOf(pre) # {}

\* C4: merging any context A into the default (empty) context yields a
\* context equal to A.
C4_MergeIntoEmpty ==
  (LastIsMerge /\ pre = DefaultContext) => self = last.other

C4_Witness ==
  /\ LastIsMerge
  /\ pre = DefaultContext
  /\ last.other.targeting_key # None
  /\ Cardinality(KeysOf(last.other)) >= 2

\* C5: merging the same context B a second time leaves the context equal to
\* its state after the first merge of B.
C5_Idempotent ==
  (last2.op = "merge" /\ LastIsMerge /\ last.other = last2.other) => self = pre

C5_Witness ==
  /\ last2.op = "merge"
  /\ LastIsMerge
  /\ last.other = last2.other
  /\ pre # pre2
  /\ Cardinality(KeysOf(last.other) \ KeysOf(pre2)) >= 2

\* C6: when A and B share a custom-field key with different values, the
\* result of A.merge_missing(B) differs from the result of B.merge_missing(A).
C6_NotCommutative ==
  (LastIsMerge /\ \E k \in KeysOf(pre) \cap KeysOf(last.other) : pre.custom_fields[k] # last.other.custom_fields[k]) =>
    \A order \in Orders(KeysOf(pre)) : self # merge_missing(last.other, pre, order)

C6_Witness ==
  /\ LastIsMerge
  /\ \E k \in KeysOf(pre) \cap KeysOf(last.other) : pre.custom_fields[k] # last.other.custom_fields[k]
  /\ pre.targeting_key = last.other.targeting_key
  /\ KeysOf(pre) = KeysOf(last.other)

\* C7: inserting key k with v1 and then with v2 # v1 leaves one entry under
\* k holding v2, and the number of entries is at most one more than before
\* both calls.
C7_KeyUniqueness ==
  (last2.op \in {"add", "with"} /\ LastIsInsert /\ last.key = last2.key /\ last.value # last2.value) =>
    /\ last.key \in KeysOf(self)
    /\ self.custom_fields[last.key] = last.value
    /\ Cardinality(KeysOf(self)) <= Cardinality(KeysOf(pre2)) + 1
    /\ KeysOf(self) = KeysOf(pre2) \cup {last.key}

C7_Witness ==
  /\ last2.op \in {"add", "with"}
  /\ LastIsInsert
  /\ last.key = last2.key
  /\ last.value # last2.value
  /\ last.key \notin KeysOf(pre2)
  /\ KeysOf(pre2) # {}

\* C8: ResolutionDetails::new(v) returns an envelope whose value is v and
\* whose variant, reason and flag_metadata are absent.
C8_NewOnlyValue ==
  dlast.op = "new" =>
    /\ details.value = (IF dlast.arg.kind = "bool" THEN (IF dlast.arg.val THEN 1 ELSE 0) ELSE dlast.arg.val)
    /\ details.variant = None
    /\ details.reason = None
    /\ details.flag_metadata = None

C8_Witness ==
  /\ dlast.op = "new"
  /\ dlast.arg.kind = "i64"
  /\ dlast.arg.val # 0
  /\ details.value = dlast.arg.val

\* C9: under add_custom_field, with_custom_field and merge_missing the set
\* of custom-field keys never loses a key, and a targeting key, once present,
\* is never cleared or replaced.
C9_OnlyGrows ==
  [][/\ KeysOf(self) \subseteq KeysOf(self')
     /\ self.targeting_key # None => self'.targeting_key = self.targeting_key]_vars

C9_Witness ==
  /\ LastIsMerge
  /\ pre.targeting_key # None
  /\ last.other.targeting_key # None
  /\ last.other.targeting_key # pre.targeting_key
  /\ KeysOf(pre) # {}
  /\ KeysOf(last.other) \ KeysOf(pre) # {}
  /\ self.targeting_key = pre.targeting_key
  /\ KeysOf(pre) \subseteq KeysOf(self)
  /\ KeysOf(self) # KeysOf(pre)

\* C10: layered merging is associative: merging B and then C into A gives
\* the same context as merging C into B and then that B into A.
C10_Associative ==
  (last2.op = "merge" /\ LastIsMerge) =>
    \A o1 \in Orders(KeysOf(last.other)) :
      LET merged == merge_missing(last2.other, last.other, o1)
      IN self = merge_missing(pre2, merged, SomeOrder(KeysOf(merged)))

C10_Witness ==
  /\ last2.op = "merge"
  /\ LastIsMerge
  /\ pre2.targeting_key = None
  /\ last2.other.targeting_key # None
  /\ last.other.targeting_key # None
  /\ last.other.targeting_key # last2.other.targeting_key
  /\ \E k \in KeysOf(last2.other) \cap KeysOf(last.other) : last2.other.custom_fields[k] # last.other.custom_fields[k] /\ k \notin KeysOf(pre2)
  /\ KeysOf(pre2) # {}
====
